---- MODULE Spec2Model ----
(***************************************************************************)
(* Model of buzzerComponent/buzzer.c: the Data Hub controlled buzzer of    *)
(* the mangOH Yellow.  Four push handlers (enable, frequency, period,      *)
(* percent) and one timer expiry handler run to completion, one at a time, *)
(* on the component's event loop.                                          *)
(*                                                                         *)
(* The numeric setpoints arrive as C doubles.  A finite double x is        *)
(* represented by the integer x * Scale (four decimals), so that the       *)
(* comparisons against 0.0, 0.1, 100.0 and 3600.0 and the truncating       *)
(* casts to uint are computed, not assumed.  The input sets hold finite    *)
(* doubles whose cast to uint is defined (below 2^32; TLC's integers end   *)
(* at 2^31 - 1): NaN, infinities and larger values are not part of them.   *)
(* The products of the interval computations are formed in 32-bit unsigned *)
(* arithmetic, on 16-bit halves, so that a wrap is computed as well.       *)
(***************************************************************************)
EXTENDS Integers, Sequences, FiniteSets, TLC

VARIABLES
    Enabled,             \* static bool Enabled
    Frequency,           \* static uint Frequency
    DutyCycleOnPercent,  \* static uint DutyCycleOnPercent
    PeriodMs,            \* static uint PeriodMs
    BuzzerOn,            \* static bool BuzzerOn
    FreqFile,            \* SetBuzzerHz's static FILE *FreqFile: "NULL" or "open"
    clkout_freq,         \* last value written to the clkout_freq sysfs file
    timerRunning,        \* the Legato timer is started
    timerInterval,       \* the interval last set on the timer, in ms
    alive,               \* FALSE once LE_FATAL has terminated the process
    lastEvent,           \* the event the last handler run processed
    writes,              \* values written to the sink by the last handler run
    timerOps,            \* timer calls made by the last handler run
    errorReported,       \* the last handler run called LE_ERROR
    cycleLog             \* steps since the last enable that started a cycle

progVars == <<Enabled, Frequency, DutyCycleOnPercent, PeriodMs, BuzzerOn,
              FreqFile, clkout_freq, timerRunning, timerInterval, alive>>

vars == <<Enabled, Frequency, DutyCycleOnPercent, PeriodMs, BuzzerOn,
          FreqFile, clkout_freq, timerRunning, timerInterval, alive,
          lastEvent, writes, timerOps, errorReported, cycleLog>>

----------------------------------------------------------------------------
(* Arithmetic and input representation *)

\* Fixed-point denominator of the representation of double inputs.
Scale == 100 * 100

\* (uint)d for a non-negative double d (represented as d * Scale):
\* truncation toward zero.
UIntCast(d) == d \div Scale

\* (uint)(d * 1000) for a non-negative double d (represented as d * Scale).
UIntCastMilli(d) == d \div (Scale \div 1000)

\* uint is 32 bits wide; its values are handled as two 16-bit halves.
Half == 2 ^ 16

\* a * b / 100 in uint arithmetic, for a < 2^32 and b < 2^15: the product
\* wraps modulo 2^32 before the truncating division.
UIntMulDiv100(a, b) ==
    LET lo == (a % Half) * b
        hi == ((a \div Half) * b + (lo \div Half)) % Half
    IN  (hi \div 100) * Half + (((hi % 100) * Half + (lo % Half)) \div 100)

\* Frequency to use to turn the buzzer off.
BUZZER_OFF_FREQ == 0

\* Length of cycleLog that is kept.
MaxLog == 4

\* The most sink writes a single handler run performs (StopCycle; StartCycle).
FailChoices == 0 .. 2

\* Frequency inputs, in Hz * Scale.
FreqInputs ==
    { -1 * Scale, -1, 0, 1 * Scale, 1024 * Scale, 1024 * Scale + 5000,
      2048 * Scale, 4096 * Scale, 5000 * Scale, 8192 * Scale, 16384 * Scale,
      32768 * Scale, 40000 * Scale }

\* Period inputs, in seconds * Scale.
PeriodInputs ==
    { 999, 1000, 1500, 1 * Scale, 1 * Scale + 5, 2 * Scale,
      3600 * Scale, 3600 * Scale + 1, 50000 * Scale }

\* Percent inputs, in percent * Scale.
PercentInputs ==
    { -1, 0, 20 * Scale, 20 * Scale + 5000, 33 * Scale, 50 * Scale,
      100 * Scale, 100 * Scale + 1 }

----------------------------------------------------------------------------
(* The handlers, as functions on a record s of the program state.  s.fail  *)
(* counts down to the sink write that fails (0: none fails); LE_FATAL      *)
(* clears s.alive, and no statement after it runs.                         *)

\* Makes the buzzer sound at a given frequency in Hz.
SetBuzzerHz(s, freq) ==
    IF ~s.alive THEN s
    ELSE IF s.fail = 1
        THEN [s EXCEPT !.alive = FALSE, !.fail = 0]
        ELSE [s EXCEPT !.FreqFile = "open",
                       !.clkout_freq = freq,
                       !.writes = Append(@, freq),
                       !.fail = IF @ > 0 THEN @ - 1 ELSE 0]

le_timer_SetMsInterval(s, ms) ==
    IF ~s.alive THEN s
    ELSE [s EXCEPT !.timerInterval = ms,
                   !.timerOps = Append(@, [op |-> "SetMsInterval", ms |-> ms])]

le_timer_Start(s) ==
    IF ~s.alive THEN s
    ELSE [s EXCEPT !.timerRunning = TRUE,
                   !.timerOps = Append(@, [op |-> "Start", ms |-> 0])]

le_timer_Stop(s) ==
    IF ~s.alive THEN s
    ELSE [s EXCEPT !.timerRunning = FALSE,
                   !.timerOps = Append(@, [op |-> "Stop", ms |-> 0])]

\* BuzzerOn = b;
SetBuzzerOn(s, b) == IF ~s.alive THEN s ELSE [s EXCEPT !.BuzzerOn = b]

\* StartCycle with the percentage left out of the on-interval.
StartCycle_FullPeriod(s) ==
    LET s1 == SetBuzzerHz(s, s.Frequency)
        s2 == SetBuzzerOn(s1, TRUE)
        s3 == le_timer_SetMsInterval(s2, s2.PeriodMs)
    IN  le_timer_Start(s3)

\* Start at the beginning of a duty cycle.
StartCycle(s) ==
    LET s1 == SetBuzzerHz(s, s.Frequency)
        s2 == SetBuzzerOn(s1, TRUE)
        s3 == le_timer_SetMsInterval(s2,
                  UIntMulDiv100(s2.PeriodMs, s2.DutyCycleOnPercent))
    IN  le_timer_Start(s3)

\* StopCycle that clears BuzzerOn without turning the buzzer off.
StopCycle_NoWrite(s) ==
    LET s1 == le_timer_Stop(s) IN
    IF s1.BuzzerOn THEN SetBuzzerOn(s1, FALSE) ELSE s1

\* Disable the buzzer, immediately stopping it.
StopCycle(s) ==
    LET s1 == le_timer_Stop(s) IN
    IF s1.BuzzerOn
        THEN SetBuzzerOn(SetBuzzerHz(s1, BUZZER_OFF_FREQ), FALSE)
        ELSE s1

\* TimerExpiryHandler that uses the on-percentage for the off-interval too.
TimerExpiryHandler_OnPercentTwice(s) ==
    IF s.BuzzerOn
        THEN IF s.DutyCycleOnPercent < 100
                THEN LET s1 == SetBuzzerOn(SetBuzzerHz(s, BUZZER_OFF_FREQ), FALSE)
                         ms == UIntMulDiv100(s1.PeriodMs, s1.DutyCycleOnPercent)
                     IN  le_timer_SetMsInterval(s1, ms)
                ELSE s
        ELSE IF s.DutyCycleOnPercent > 0
                THEN LET s1 == SetBuzzerOn(SetBuzzerHz(s, s.Frequency), TRUE)
                         ms == UIntMulDiv100(s1.PeriodMs, s1.DutyCycleOnPercent)
                     IN  le_timer_SetMsInterval(s1, ms)
                ELSE s

\* TimerExpiryHandler without the 100% check.
TimerExpiryHandler_No100Check(s) ==
    IF s.BuzzerOn
        THEN LET s1 == SetBuzzerOn(SetBuzzerHz(s, BUZZER_OFF_FREQ), FALSE)
                 ms == UIntMulDiv100(s1.PeriodMs, 100 - s1.DutyCycleOnPercent)
             IN  le_timer_SetMsInterval(s1, ms)
        ELSE IF s.DutyCycleOnPercent > 0
                THEN LET s1 == SetBuzzerOn(SetBuzzerHz(s, s.Frequency), TRUE)
                         ms == UIntMulDiv100(s1.PeriodMs, s1.DutyCycleOnPercent)
                     IN  le_timer_SetMsInterval(s1, ms)
                ELSE s

\* TimerExpiryHandler that never turns the buzzer back on.
TimerExpiryHandler_NeverOn(s) ==
    IF s.BuzzerOn /\ s.DutyCycleOnPercent < 100
        THEN LET s1 == SetBuzzerOn(SetBuzzerHz(s, BUZZER_OFF_FREQ), FALSE)
                 ms == UIntMulDiv100(s1.PeriodMs, 100 - s1.DutyCycleOnPercent)
             IN  le_timer_SetMsInterval(s1, ms)
        ELSE s

\* Timer expiry handler function.
TimerExpiryHandler(s) ==
    IF s.BuzzerOn
        THEN IF s.DutyCycleOnPercent < 100
                THEN LET s1 == SetBuzzerOn(SetBuzzerHz(s, BUZZER_OFF_FREQ), FALSE)
                         ms == UIntMulDiv100(s1.PeriodMs,
                                             100 - s1.DutyCycleOnPercent)
                     IN  le_timer_SetMsInterval(s1, ms)
                ELSE s
        ELSE IF s.DutyCycleOnPercent > 0
                THEN LET s1 == SetBuzzerOn(SetBuzzerHz(s, s.Frequency), TRUE)
                         ms == UIntMulDiv100(s1.PeriodMs, s1.DutyCycleOnPercent)
                     IN  le_timer_SetMsInterval(s1, ms)
                ELSE s

\* EnablePushHandler that does not ignore updates that don't change the value.
EnablePushHandler_NoChangeCheck(s, enable) ==
    LET s1 == [s EXCEPT !.Enabled = enable] IN
    IF enable THEN StartCycle(s1) ELSE StopCycle(s1)

\* Handler function for updates to the enable setpoint.
EnablePushHandler(s, enable) ==
    IF enable # s.Enabled
        THEN LET s1 == [s EXCEPT !.Enabled = enable] IN
             IF enable THEN StartCycle(s1) ELSE StopCycle(s1)
        ELSE s

\* The switch with a case label for 32768 as well.
AcceptedFrequency_With32768(intFrequency) ==
    intFrequency \in {1024, 2048, 4096, 8192, 16384, 32768}

\* The case labels of FrequencyPushHandler's switch.
AcceptedFrequency(intFrequency) ==
    intFrequency \in {1024, 2048, 4096, 8192, 16384}

\* FrequencyPushHandler that stores the frequency without re-commanding the
\* sink while the buzzer is on.
FrequencyPushHandler_NoRewrite(s, freq) ==
    IF freq < 0
        THEN [s EXCEPT !.errorReported = TRUE]
        ELSE LET intFrequency == UIntCast(freq) IN
             IF s.Frequency = intFrequency
                THEN s
             ELSE IF AcceptedFrequency(intFrequency)
                THEN [s EXCEPT !.Frequency = intFrequency]
             ELSE [s EXCEPT !.errorReported = TRUE]

\* FrequencyPushHandler that re-commands the sink whether the buzzer is on
\* or off.
FrequencyPushHandler_AlwaysWrite(s, freq) ==
    IF freq < 0
        THEN [s EXCEPT !.errorReported = TRUE]
        ELSE LET intFrequency == UIntCast(freq) IN
             IF s.Frequency = intFrequency
                THEN s
             ELSE IF AcceptedFrequency(intFrequency)
                THEN SetBuzzerHz([s EXCEPT !.Frequency = intFrequency],
                                 intFrequency)
             ELSE [s EXCEPT !.errorReported = TRUE]

\* Handler function for frequency setpoint updates.
FrequencyPushHandler(s, freq) ==
    IF freq < 0
        THEN [s EXCEPT !.errorReported = TRUE]
        ELSE LET intFrequency == UIntCast(freq) IN
             IF s.Frequency = intFrequency
                THEN s
             ELSE IF AcceptedFrequency(intFrequency)
                THEN LET s1 == [s EXCEPT !.Frequency = intFrequency] IN
                     IF s1.BuzzerOn THEN SetBuzzerHz(s1, s1.Frequency) ELSE s1
             ELSE [s EXCEPT !.errorReported = TRUE]

\* PeriodPushHandler without any range test.
PeriodPushHandler_NoRangeCheck(s, period) ==
    IF period < 0
        THEN [s EXCEPT !.errorReported = TRUE]
        ELSE LET periodMs == UIntCastMilli(period) IN
             IF s.PeriodMs # periodMs
                THEN StartCycle(StopCycle([s EXCEPT !.PeriodMs = periodMs]))
                ELSE s

\* PeriodPushHandler without the upper limit of 3600 s.
PeriodPushHandler_NoUpperLimit(s, period) ==
    IF period < Scale \div 10
        THEN [s EXCEPT !.errorReported = TRUE]
        ELSE LET periodMs == UIntCastMilli(period) IN
             IF s.PeriodMs # periodMs
                THEN StartCycle(StopCycle([s EXCEPT !.PeriodMs = periodMs]))
                ELSE s

\* PeriodPushHandler that restarts the cycle on every valid update, changed
\* or not.
PeriodPushHandler_NoChangeCheck(s, period) ==
    IF period < Scale \div 10 \/ period > 3600 * Scale
        THEN [s EXCEPT !.errorReported = TRUE]
        ELSE StartCycle(StopCycle([s EXCEPT !.PeriodMs = UIntCastMilli(period)]))

\* PeriodPushHandler that starts a new cycle without stopping the old one.
PeriodPushHandler_NoStop(s, period) ==
    IF period < Scale \div 10 \/ period > 3600 * Scale
        THEN [s EXCEPT !.errorReported = TRUE]
        ELSE LET periodMs == UIntCastMilli(period) IN
             IF s.PeriodMs # periodMs
                THEN StartCycle([s EXCEPT !.PeriodMs = periodMs])
                ELSE s

\* Handler function for duty cycle period setpoint updates.
PeriodPushHandler(s, period) ==
    IF period < Scale \div 10 \/ period > 3600 * Scale
        THEN [s EXCEPT !.errorReported = TRUE]
        ELSE LET periodMs == UIntCastMilli(period) IN
             IF s.PeriodMs # periodMs
                THEN StartCycle(StopCycle([s EXCEPT !.PeriodMs = periodMs]))
                ELSE s

\* PercentPushHandler that reports a percentage above 100 and then stores
\* it as 100.
PercentPushHandler_Clamp(s, percent) ==
    IF percent < 0
        THEN [s EXCEPT !.errorReported = TRUE]
        ELSE LET intPercent == IF percent > 100 * Scale THEN 100
                                                        ELSE UIntCast(percent)
                 s0 == [s EXCEPT !.errorReported = percent > 100 * Scale]
             IN
             IF s0.DutyCycleOnPercent # intPercent
                THEN LET s1 == [s0 EXCEPT !.DutyCycleOnPercent = intPercent] IN
                     IF s1.BuzzerOn
                        THEN le_timer_SetMsInterval(s1,
                                 UIntMulDiv100(s1.PeriodMs, s1.DutyCycleOnPercent))
                        ELSE s1
                ELSE s0

\* PercentPushHandler that re-arms the timer in the off-phase as well.
PercentPushHandler_AlwaysRearm(s, percent) ==
    IF percent < 0 \/ percent > 100 * Scale
        THEN [s EXCEPT !.errorReported = TRUE]
        ELSE LET intPercent == UIntCast(percent) IN
             IF s.DutyCycleOnPercent # intPercent
                THEN LET s1 == [s EXCEPT !.DutyCycleOnPercent = intPercent] IN
                     le_timer_SetMsInterval(s1,
                         UIntMulDiv100(s1.PeriodMs, s1.DutyCycleOnPercent))
                ELSE s

\* Handler function for the duty cycle percent setpoint updates.
PercentPushHandler(s, percent) ==
    IF percent < 0 \/ percent > 100 * Scale
        THEN [s EXCEPT !.errorReported = TRUE]
        ELSE LET intPercent == UIntCast(percent) IN
             IF s.DutyCycleOnPercent # intPercent
                THEN LET s1 == [s EXCEPT !.DutyCycleOnPercent = intPercent] IN
                     IF s1.BuzzerOn
                        THEN le_timer_SetMsInterval(s1,
                                 UIntMulDiv100(s1.PeriodMs, s1.DutyCycleOnPercent))
                        ELSE s1
                ELSE s

----------------------------------------------------------------------------
(* The state machine *)

\* The program state at the start of a handler run in which the fail-th sink
\* write fails.
Begin(fail) ==
    [Enabled |-> Enabled, Frequency |-> Frequency,
     DutyCycleOnPercent |-> DutyCycleOnPercent, PeriodMs |-> PeriodMs,
     BuzzerOn |-> BuzzerOn, FreqFile |-> FreqFile, clkout_freq |-> clkout_freq,
     timerRunning |-> timerRunning, timerInterval |-> timerInterval,
     alive |-> alive, writes |-> <<>>, timerOps |-> <<>>,
     errorReported |-> FALSE, fail |-> fail]

\* The program state and the observations after a handler run that ended in s.
Commit(s, ev) ==
    /\ Enabled' = s.Enabled
    /\ Frequency' = s.Frequency
    /\ DutyCycleOnPercent' = s.DutyCycleOnPercent
    /\ PeriodMs' = s.PeriodMs
    /\ BuzzerOn' = s.BuzzerOn
    /\ FreqFile' = s.FreqFile
    /\ clkout_freq' = s.clkout_freq
    /\ timerRunning' = s.timerRunning
    /\ timerInterval' = s.timerInterval
    /\ alive' = s.alive
    /\ writes' = s.writes
    /\ timerOps' = s.timerOps
    /\ errorReported' = s.errorReported
    /\ lastEvent' = ev
    /\ cycleLog' =
         LET step == [writes |-> s.writes, timerOps |-> s.timerOps] IN
         IF ev.kind = "enable" /\ ev.val = 1 /\ ~Enabled
            THEN <<step>>
         ELSE IF ev.kind = "timer" /\ cycleLog # <<>>
            THEN IF Len(cycleLog) < MaxLog THEN Append(cycleLog, step)
                                           ELSE cycleLog
         ELSE <<>>

Init ==
    /\ Enabled = FALSE
    /\ Frequency = 1024
    /\ DutyCycleOnPercent = 50
    /\ PeriodMs = 2000
    /\ BuzzerOn = FALSE
    /\ FreqFile = "NULL"
    /\ clkout_freq = 0
    /\ timerRunning = FALSE
    /\ timerInterval = 0
    /\ alive = TRUE
    /\ lastEvent = [kind |-> "init", val |-> 0]
    /\ writes = <<>>
    /\ timerOps = <<>>
    /\ errorReported = FALSE
    /\ cycleLog = <<>>

EnablePush ==
    /\ alive
    /\ \E enable \in BOOLEAN, fail \in FailChoices :
          Commit(EnablePushHandler(Begin(fail), enable),
                 [kind |-> "enable", val |-> IF enable THEN 1 ELSE 0])

FrequencyPush ==
    /\ alive
    /\ \E freq \in FreqInputs, fail \in FailChoices :
          Commit(FrequencyPushHandler(Begin(fail), freq),
                 [kind |-> "frequency", val |-> freq])

PeriodPush ==
    /\ alive
    /\ \E period \in PeriodInputs, fail \in FailChoices :
          Commit(PeriodPushHandler(Begin(fail), period),
                 [kind |-> "period", val |-> period])

PercentPush ==
    /\ alive
    /\ \E percent \in PercentInputs, fail \in FailChoices :
          Commit(PercentPushHandler(Begin(fail), percent),
                 [kind |-> "percent", val |-> percent])

TimerExpiry ==
    /\ alive
    /\ timerRunning
    /\ \E fail \in FailChoices :
          Commit(TimerExpiryHandler(Begin(fail)), [kind |-> "timer", val |-> 0])

Next ==
    \/ EnablePush
    \/ FrequencyPush
    \/ PeriodPush
    \/ PercentPush
    \/ TimerExpiry

Spec == Init /\ [][Next]_vars

\* Values of the setpoints that the updates of the input sets store.
StoredFrequencies == {1024, 2048, 4096, 8192, 16384}
StoredPeriods == {100, 150, 1000, 2000, 3600000}
StoredPercents == {0, 20, 33, 50, 100}

\* A cycle with setpoints f, p and d has been enabled and disabled again:
\* the state after the updates that store f, p and d, enable=true and
\* enable=false.
InitCycle ==
    \E f \in StoredFrequencies, p \in StoredPeriods, d \in StoredPercents :
        /\ Enabled = FALSE
        /\ Frequency = f
        /\ DutyCycleOnPercent = d
        /\ PeriodMs = p
        /\ BuzzerOn = FALSE
        /\ FreqFile = "open"
        /\ clkout_freq = BUZZER_OFF_FREQ
        /\ timerRunning = FALSE
        /\ timerInterval = UIntMulDiv100(p, d)
        /\ alive = TRUE
        /\ lastEvent = [kind |-> "enable", val |-> 0]
        /\ writes = <<BUZZER_OFF_FREQ>>
        /\ timerOps = <<[op |-> "Stop", ms |-> 0]>>
        /\ errorReported = FALSE
        /\ cycleLog = <<>>

\* No setpoint update arrives once an enable=true update has started a
\* cycle: from then on only the timer fires.
NextCycle ==
    \/ cycleLog = <<>> /\ EnablePush
    \/ TimerExpiry

\* The timer repeats for ever: while it is running it keeps expiring.
SpecCycle == InitCycle /\ [][NextCycle]_vars /\ WF_vars(TimerExpiry)

TypeOK ==
    /\ Enabled \in BOOLEAN
    /\ BuzzerOn \in BOOLEAN
    /\ timerRunning \in BOOLEAN
    /\ alive \in BOOLEAN
    /\ FreqFile \in {"NULL", "open"}
    /\ Frequency \in Nat
    /\ PeriodMs \in Nat
    /\ DutyCycleOnPercent \in Nat
    /\ Len(cycleLog) <= MaxLog

----------------------------------------------------------------------------
(* Helpers of the properties *)

\* The intervals armed by a sequence of timer calls.
RECURSIVE Arms(_)
Arms(ops) ==
    IF ops = <<>> THEN <<>>
    ELSE LET rest == Arms(Tail(ops)) IN
         IF Head(ops).op = "SetMsInterval" THEN <<Head(ops).ms>> \o rest
                                           ELSE rest

\* The last handler run was a push of value val on the named setpoint.
Pushed(kind, val) == lastEvent.kind = kind /\ lastEvent.val = val

NoWriteOf(ws, f) == \A i \in DOMAIN ws : ws[i] # f

OnlyWritesOf(ws, f) == \A i \in DOMAIN ws : ws[i] = f

TimerStop == [op |-> "Stop", ms |-> 0]
TimerStart == [op |-> "Start", ms |-> 0]
TimerSet(ms) == [op |-> "SetMsInterval", ms |-> ms]

----------------------------------------------------------------------------
(* Properties *)

\* C1: in every reachable state of the running process, BuzzerOn implies
\* that the last frequency written to the sink is the stored Frequency, and
\* ~BuzzerOn implies that the last frequency written is 0 (the sink counts
\* as commanded off before its first write).
C1_SinkMatchesPhase ==
    alive => /\ BuzzerOn => clkout_freq = Frequency
             /\ ~BuzzerOn => clkout_freq = BUZZER_OFF_FREQ

\* A frequency change accepted while the buzzer is on has re-commanded the sink.
C1_Witness ==
    /\ alive
    /\ BuzzerOn
    /\ Pushed("frequency", 2048 * Scale)
    /\ writes = <<2048>>
    /\ clkout_freq = 2048

\* C2: the duty-cycle timer is running if and only if Enabled is true, so
\* that the timer never fires while Enabled is false.
C2_TimerIffEnabled == alive => (timerRunning <=> Enabled)

\* C3: Enabled = FALSE implies BuzzerOn = FALSE and the last frequency
\* written to the sink is 0: no sound while enable is false.
C3_DisabledSilent ==
    (alive /\ ~Enabled) => (~BuzzerOn /\ clkout_freq = BUZZER_OFF_FREQ)

\* C4: with Frequency = 1024, PeriodMs = 1000 and DutyCycleOnPercent = 20, an
\* enable=true update processed while disabled and the three timer firings
\* that follow it write 1024, 0, 1024, 0 to the sink and arm the intervals
\* 200, 800, 200, 800, one write and one interval per step.
C4_Waveform ==
    (/\ alive
     /\ Len(cycleLog) >= 4
     /\ Frequency = 1024 /\ PeriodMs = 1000 /\ DutyCycleOnPercent = 20)
    => /\ [i \in 1 .. 4 |-> cycleLog[i].writes]
            = << <<1024>>, <<0>>, <<1024>>, <<0>> >>
       /\ [i \in 1 .. 4 |-> Arms(cycleLog[i].timerOps)]
            = << <<200>>, <<800>>, <<200>>, <<800>> >>

\* The enable and three firings of C4 have happened.
C4_Witness ==
    /\ alive
    /\ Len(cycleLog) = 4
    /\ Frequency = 1024 /\ PeriodMs = 1000 /\ DutyCycleOnPercent = 20
    /\ lastEvent.kind = "timer"
    /\ timerInterval = 800
    /\ ~BuzzerOn

\* C5 as stated: a frequency update v in {1024, 2048, 4096, 8192, 16384,
\* 32768} leaves Frequency = v; any other v leaves Frequency unchanged and
\* reports a validation failure.
C5_SixFrequencies ==
    [][ (lastEvent'.kind = "frequency" /\ alive') =>
          LET v == lastEvent'.val IN
          IF v \in {f * Scale : f \in {1024, 2048, 4096, 8192, 16384, 32768}}
             THEN Frequency' = v \div Scale
             ELSE Frequency' = Frequency /\ errorReported' ]_vars

\* C5 amended: for a frequency update v >= 0 with t the value of v truncated
\* toward zero, t in {1024, 2048, 4096, 8192, 16384} leaves Frequency = t and
\* reports nothing; a negative v or any other t (32768 included) leaves
\* Frequency unchanged and reports a validation failure.
C5_FiveFrequenciesTruncated ==
    [][ (lastEvent'.kind = "frequency" /\ alive') =>
          LET v == lastEvent'.val IN
          IF v >= 0 /\ (v \div Scale) \in {1024, 2048, 4096, 8192, 16384}
             THEN Frequency' = v \div Scale /\ ~errorReported'
             ELSE Frequency' = Frequency /\ errorReported' ]_vars

\* A 32768 Hz update has been rejected.
C5_Witness ==
    /\ alive
    /\ Pushed("frequency", 32768 * Scale)
    /\ errorReported
    /\ Frequency # 32768

\* C6: no event processed in a state with DutyCycleOnPercent = 0 and ending
\* with Enabled = TRUE writes a non-zero frequency to the sink.
C6_NeverOnAtZeroPercent ==
    [][ (DutyCycleOnPercent = 0 /\ Enabled' /\ alive') =>
          OnlyWritesOf(writes', BUZZER_OFF_FREQ) ]_vars

\* C7 as stated: no event processed while Enabled and DutyCycleOnPercent =
\* 100 that leaves both so writes 0 to the sink.
C7_NeverOffAtFullPercent ==
    [][ (/\ Enabled /\ DutyCycleOnPercent = 100
         /\ Enabled' /\ DutyCycleOnPercent' = 100 /\ alive') =>
          NoWriteOf(writes', BUZZER_OFF_FREQ) ]_vars

\* C7 amended: while Enabled with DutyCycleOnPercent = 100, no timer firing,
\* enable update, frequency update or percent update that leaves both so
\* writes 0 to the sink; a period update that changes PeriodMs restarts the
\* cycle, writing 0 (if the buzzer was on) and then Frequency.
C7_NeverOffAtFullPercentButRestart ==
    [][ (/\ Enabled /\ DutyCycleOnPercent = 100
         /\ Enabled' /\ DutyCycleOnPercent' = 100 /\ alive') =>
          IF lastEvent'.kind = "period" /\ PeriodMs' # PeriodMs
             THEN writes' = (IF BuzzerOn THEN <<BUZZER_OFF_FREQ>> ELSE <<>>)
                               \o <<Frequency>>
             ELSE NoWriteOf(writes', BUZZER_OFF_FREQ) ]_vars

\* The timer has fired at 100% with the buzzer on, and nothing was written.
C7_Witness ==
    /\ alive
    /\ Enabled
    /\ DutyCycleOnPercent = 100
    /\ BuzzerOn
    /\ lastEvent.kind = "timer"
    /\ writes = <<>>
    /\ timerOps = <<>>

\* C8: an enable=false update processed while Enabled is already false
\* writes nothing to the sink, makes no timer call and changes no variable
\* of the program.
C8_DisableIdempotent ==
    [][ (lastEvent'.kind = "enable" /\ lastEvent'.val = 0 /\ ~Enabled) =>
          /\ writes' = <<>>
          /\ timerOps' = <<>>
          /\ UNCHANGED progVars ]_vars

\* An enable=false update was processed while disabled: a disable of an
\* enabled cycle always stops the timer.
C8_Witness ==
    /\ alive
    /\ Pushed("enable", 0)
    /\ ~Enabled
    /\ timerOps = <<>>

\* C9: an enable=false update processed while Enabled is true stops the
\* timer; it writes 0 to the sink exactly once if BuzzerOn was true and
\* nothing if BuzzerOn was false; afterwards BuzzerOn is false.
C9_DisableStops ==
    [][ (lastEvent'.kind = "enable" /\ lastEvent'.val = 0 /\ Enabled /\ alive') =>
          /\ timerOps' = <<TimerStop>>
          /\ ~timerRunning'
          /\ writes' = IF BuzzerOn THEN <<BUZZER_OFF_FREQ>> ELSE <<>>
          /\ ~BuzzerOn'
          /\ ~Enabled' ]_vars

\* A cycle was disabled while the buzzer was on.
C9_Witness ==
    /\ alive
    /\ Pushed("enable", 0)
    /\ timerOps = <<TimerStop>>
    /\ writes = <<BUZZER_OFF_FREQ>>
    /\ ~BuzzerOn
    /\ ~timerRunning

\* C10: an enable=true update processed while Enabled is false writes
\* Frequency to the sink, sets BuzzerOn, arms the timer with
\* PeriodMs * DutyCycleOnPercent / 100 (truncated) and starts it, whatever
\* the stored setpoints and the phase the last cycle was disabled in.
C10_EnableStartsOn ==
    [][ (lastEvent'.kind = "enable" /\ lastEvent'.val = 1 /\ ~Enabled /\ alive') =>
          LET ms == (PeriodMs * DutyCycleOnPercent) \div 100 IN
          /\ writes' = <<Frequency>>
          /\ clkout_freq' = Frequency
          /\ BuzzerOn'
          /\ Enabled'
          /\ timerOps' = <<TimerSet(ms), TimerStart>>
          /\ timerInterval' = ms
          /\ timerRunning'
          /\ UNCHANGED <<Frequency, PeriodMs, DutyCycleOnPercent>> ]_vars

\* A cycle was started with a truncated on-interval: 150 * 33 / 100 = 49.
C10_Witness ==
    /\ alive
    /\ Pushed("enable", 1)
    /\ PeriodMs = 150 /\ DutyCycleOnPercent = 33
    /\ timerOps = <<TimerSet(49), TimerStart>>
    /\ writes = <<Frequency>>
    /\ BuzzerOn

\* C11: a frequency update that changes the stored Frequency writes the new
\* frequency to the sink in that step if BuzzerOn is true and writes nothing
\* if BuzzerOn is false; either way it makes no timer call and leaves
\* BuzzerOn, the timer's running state and its armed interval unchanged.
C11_FrequencyChangeFrame ==
    [][ (lastEvent'.kind = "frequency" /\ Frequency' # Frequency /\ alive') =>
          /\ writes' = IF BuzzerOn THEN <<Frequency'>> ELSE <<>>
          /\ clkout_freq' = IF BuzzerOn THEN Frequency' ELSE clkout_freq
          /\ timerOps' = <<>>
          /\ UNCHANGED <<BuzzerOn, timerRunning, timerInterval, Enabled,
                         PeriodMs, DutyCycleOnPercent>> ]_vars

\* An enabled, sounding buzzer was re-commanded to 4096 Hz.
C11_Witness ==
    /\ alive
    /\ Enabled
    /\ BuzzerOn
    /\ timerRunning
    /\ Pushed("frequency", 4096 * Scale)
    /\ writes = <<4096>>
    /\ timerOps = <<>>

\* The update of the last handler run is one that is to be rejected: a
\* frequency that is negative or whose integer part is not an accepted
\* value, a period outside [0.1 s, 3600 s], a percentage outside [0, 100].
RejectedInput(ev) ==
    \/ /\ ev.kind = "frequency"
       /\ \/ ev.val < 0
          \/ (ev.val \div Scale) \notin {1024, 2048, 4096, 8192, 16384}
    \/ /\ ev.kind = "period"
       /\ (ev.val < Scale \div 10 \/ ev.val > 3600 * Scale)
    \/ /\ ev.kind = "percent"
       /\ (ev.val < 0 \/ ev.val > 100 * Scale)

\* C12: a rejected update (frequency negative or not a supported value,
\* period outside [0.1 s, 3600 s], percent outside [0, 100]) is reported and
\* leaves the four setpoints, BuzzerOn, the timer's running state and armed
\* interval and the sink's last commanded frequency unchanged, with no sink
\* write and no timer call.
C12_RejectedUpdateInert ==
    [][ RejectedInput(lastEvent') =>
          /\ errorReported'
          /\ writes' = <<>>
          /\ timerOps' = <<>>
          /\ UNCHANGED progVars ]_vars

\* A period above 3600 s was rejected while a cycle was running.
C12_Witness ==
    /\ alive
    /\ Enabled
    /\ timerRunning
    /\ Pushed("period", 3600 * Scale + 1)
    /\ PeriodMs # 3600000
    /\ errorReported
    /\ writes = <<>>

\* A double (times Scale) truncated toward zero.
TruncToZero(v) == IF v >= 0 THEN v \div Scale ELSE 0 - ((0 - v) \div Scale)

\* The converted value of update ev equals the value stored before it.
SameAsStored(ev) ==
    \/ ev.kind = "enable" /\ ((ev.val = 1) <=> Enabled)
    \/ ev.kind = "frequency" /\ TruncToZero(ev.val) = Frequency
    \/ ev.kind = "period" /\ ev.val >= 0
                          /\ ev.val \div (Scale \div 1000) = PeriodMs
    \/ ev.kind = "percent" /\ TruncToZero(ev.val) = DutyCycleOnPercent

\* C13: an update of enable, frequency, period or percent whose converted
\* value equals the stored value makes no sink write and no timer call and
\* changes no variable of the program.
C13_SameValueNoOp ==
    [][ SameAsStored(lastEvent') =>
          /\ writes' = <<>>
          /\ timerOps' = <<>>
          /\ UNCHANGED progVars ]_vars

\* A period of 1.0005 s arrived while 1000 ms was stored and a cycle was
\* running: no restart.
C13_Witness ==
    /\ alive
    /\ Enabled
    /\ timerRunning
    /\ Pushed("period", 1 * Scale + 5)
    /\ PeriodMs = 1000
    /\ ~errorReported
    /\ writes = <<>>
    /\ timerOps = <<>>

\* The outcome of storing PeriodMs = p and then processing an enable=false
\* update followed by an enable=true update, with the sink writes and timer
\* calls of both.
DisableThenEnable(p) ==
    EnablePushHandler(
        EnablePushHandler([Begin(0) EXCEPT !.PeriodMs = p], FALSE), TRUE)

\* C14: a period update that changes PeriodMs to p while Enabled is true
\* makes the sink writes and the timer calls, and ends in the state, of
\* storing p and processing enable=false then enable=true: the cycle
\* restarts in phase On with the timer armed to p * DutyCycleOnPercent / 100.
C14_PeriodChangeIsRestart ==
    [][ (/\ lastEvent'.kind = "period" /\ PeriodMs' # PeriodMs
         /\ Enabled /\ alive') =>
          LET ref == DisableThenEnable(PeriodMs') IN
          /\ writes' = ref.writes
          /\ timerOps' = ref.timerOps
          /\ progVars' = <<ref.Enabled, ref.Frequency, ref.DutyCycleOnPercent,
                           ref.PeriodMs, ref.BuzzerOn, ref.FreqFile,
                           ref.clkout_freq, ref.timerRunning,
                           ref.timerInterval, ref.alive>>
          /\ BuzzerOn'
          /\ timerRunning'
          /\ timerInterval' = (PeriodMs' * DutyCycleOnPercent) \div 100 ]_vars

\* A running cycle in its on-phase was restarted with a period of 150 ms.
C14_Witness ==
    /\ alive
    /\ Enabled
    /\ Pushed("period", 1500)
    /\ PeriodMs = 150
    /\ DutyCycleOnPercent = 33
    /\ writes = <<BUZZER_OFF_FREQ, Frequency>>
    /\ timerOps = <<TimerStop, TimerSet(49), TimerStart>>

\* C15: a percent update that changes DutyCycleOnPercent to d re-arms the
\* timer with PeriodMs * d / 100 if BuzzerOn is true, without changing
\* BuzzerOn and without a sink write; if BuzzerOn is false it changes the
\* stored percentage only.  A timer firing that turns the buzzer on arms
\* the interval of the percentage stored at that time.
C15_PercentChangeFrame ==
    [][ /\ (lastEvent'.kind = "percent"
            /\ DutyCycleOnPercent' # DutyCycleOnPercent /\ alive') =>
              LET ms == (PeriodMs * DutyCycleOnPercent') \div 100 IN
              /\ writes' = <<>>
              /\ timerOps' = IF BuzzerOn THEN <<TimerSet(ms)>> ELSE <<>>
              /\ timerInterval' = IF BuzzerOn THEN ms ELSE timerInterval
              /\ UNCHANGED <<Enabled, Frequency, PeriodMs, BuzzerOn, FreqFile,
                             clkout_freq, timerRunning, alive>>
        /\ (lastEvent'.kind = "timer" /\ ~BuzzerOn /\ BuzzerOn') =>
              timerOps' =
                  <<TimerSet((PeriodMs * DutyCycleOnPercent) \div 100)>>
      ]_vars

\* The percentage went from 50 to 33 in the off-phase of a 2000 ms cycle:
\* the off-interval of 1000 ms armed at 50 % still stands.
C15_Witness ==
    /\ alive
    /\ Enabled
    /\ ~BuzzerOn
    /\ Pushed("percent", 33 * Scale)
    /\ DutyCycleOnPercent = 33
    /\ PeriodMs = 2000
    /\ timerInterval = 1000
    /\ timerOps = <<>>
    /\ writes = <<>>

\* C16: in every reachable state 100 <= PeriodMs <= 3600000,
\* 0 <= DutyCycleOnPercent <= 100 and Frequency is one of the accepted
\* frequencies 1024, 2048, 4096, 8192, 16384 (all hardware-supported).
C16_SetpointsInDomain ==
    /\ 100 <= PeriodMs /\ PeriodMs <= 3600000
    /\ 0 <= DutyCycleOnPercent /\ DutyCycleOnPercent <= 100
    /\ Frequency \in {1024, 2048, 4096, 8192, 16384}

\* With the largest period and percentage stored, a percentage above 100
\* was rejected.
C16_Witness ==
    /\ alive
    /\ PeriodMs = 3600000
    /\ DutyCycleOnPercent = 100
    /\ Pushed("percent", 100 * Scale + 1)
    /\ errorReported

\* C17: every interval armed on the timer, by StartCycle, by
\* TimerExpiryHandler and by PercentPushHandler, is a positive number of
\* milliseconds.
C17_ArmedIntervalsPositive ==
    \A i \in DOMAIN timerOps :
        timerOps[i].op = "SetMsInterval" => timerOps[i].ms > 0

\* C18: with the setpoints unchanged and 0 < DutyCycleOnPercent < 100, the
\* on-interval armed by a timer firing that turns the buzzer on plus the
\* off-interval armed by the next firing, which turns it off, is PeriodMs.
C18_OnPlusOffIsPeriod ==
    (alive /\ 0 < DutyCycleOnPercent /\ DutyCycleOnPercent < 100) =>
        \A i \in 2 .. Len(cycleLog) - 1 :
            (/\ cycleLog[i].writes = <<Frequency>>
             /\ cycleLog[i + 1].writes = <<BUZZER_OFF_FREQ>>) =>
                Arms(cycleLog[i].timerOps)[1] + Arms(cycleLog[i + 1].timerOps)[1]
                    = PeriodMs

\* The cycle is enabled with a percentage strictly between 0 and 100.
Cycling ==
    alive /\ Enabled /\ 0 < DutyCycleOnPercent /\ DutyCycleOnPercent < 100

\* C19: once a cycle is enabled with 0 < DutyCycleOnPercent < 100 and no
\* further setpoint update arrives, every timer firing flips BuzzerOn, writing
\* Frequency on a turn-on and 0 on a turn-off, and, the process running, the
\* buzzer is on again and again and off again and again.
C19_PhaseAlternates ==
    /\ [][ (lastEvent'.kind = "timer" /\ Cycling /\ alive') =>
             /\ BuzzerOn' = ~BuzzerOn
             /\ writes' = <<IF BuzzerOn' THEN Frequency ELSE BUZZER_OFF_FREQ>>
             /\ clkout_freq' = writes'[1] ]_vars
    /\ [](Cycling => <>(~alive \/ BuzzerOn))
    /\ [](Cycling => <>(~alive \/ ~BuzzerOn))

\* The buzzer was turned on again by the third firing of a cycle.
C19_Witness ==
    /\ Cycling
    /\ BuzzerOn
    /\ lastEvent.kind = "timer"
    /\ Len(cycleLog) = 3
    /\ writes = <<Frequency>>

\* a * b < 2^32, computed on 16-bit halves (for b < 2^15).
MulBelow2p32(a, b) ==
    (a \div Half) * b + (((a % Half) * b) \div Half) < Half

\* floor(a * b / 100) of the unbounded integers a and b, computed without
\* forming a * b.
FloorMulDiv100(a, b) == (a \div 100) * b + (((a % 100) * b) \div 100)

\* C20: in every reachable state PeriodMs * DutyCycleOnPercent and
\* PeriodMs * (100 - DutyCycleOnPercent) are below 2^32, and the intervals
\* computed from them in 32-bit unsigned arithmetic equal
\* floor(PeriodMs * percent / 100).
C20_ProductsFit32Bits ==
    /\ DutyCycleOnPercent <= 100
    /\ MulBelow2p32(PeriodMs, DutyCycleOnPercent)
    /\ MulBelow2p32(PeriodMs, 100 - DutyCycleOnPercent)
    /\ UIntMulDiv100(PeriodMs, DutyCycleOnPercent)
         = FloorMulDiv100(PeriodMs, DutyCycleOnPercent)
    /\ UIntMulDiv100(PeriodMs, 100 - DutyCycleOnPercent)
         = FloorMulDiv100(PeriodMs, 100 - DutyCycleOnPercent)

\* The largest product, 3600000 * 100, was computed by StartCycle.
C20_Witness ==
    /\ alive
    /\ PeriodMs = 3600000
    /\ DutyCycleOnPercent = 100
    /\ Pushed("enable", 1)
    /\ timerOps = <<TimerSet(3600000), TimerStart>>

====
